---- MODULE Spec2Model ----
(***************************************************************************)
(* Countdown reconciliation (AuctionStatus, ExpressLaneController) and the *)
(* live feed buffer (StreamTimeboostedTxsComponent) of the Timeboost       *)
(* monitoring dashboard.                                                   *)
(*                                                                         *)
(* The panels own their hooks and share nothing but the props handed down  *)
(* by App, so a behaviour of App projects onto a behaviour of each panel:  *)
(* `mounted' names the panel a behaviour follows.  Every callback runs to  *)
(* completion on the single event loop.  In the countdown panels the state *)
(* updates of the poll continuations and of the interval callbacks are     *)
(* queued: React renders and commits them in a later turn (Commit), all    *)
(* that were queued until then at once, and runs the effects of that       *)
(* commit in a turn after it (Effects).  Other callbacks run in between.   *)
(***************************************************************************)
EXTENDS Integers, Sequences, FiniteSets

VARIABLES
  now,                       \* Date.now()
  selectedChain,             \* App: selectedChain
  mounted,                   \* the panel this behaviour follows
  \* ---- AuctionStatus
  status,
  localCountdown,
  localRoundStartCountdown,
  countdownIntervalRef,
  roundStartIntervalRef,
  lastSyncTimeRef,
  \* ---- ExpressLaneController
  controller,
  localTimeRemaining,
  controllerIntervalRef,
  controllerLastSyncTimeRef,
  \* ---- React's work for the countdown panel
  queued,                    \* the hooks with the queued updates applied
  effects,                   \* effects of the last commit that have not run yet
  \* ---- history of the countdown panels
  call,                      \* what the resync effect saw, until another callback runs
  base,                      \* per countdown: value the last resync effect left
  ticks,                     \* per countdown: interval callbacks that found a value since
  \* ---- the host's timers and the polls of the countdown panels
  timers,                    \* per countdown: the setInterval(_, 1000) timers not cleared
  pollTimers,                \* the setInterval(fetch, 5000) timers not cleared
  polls,                     \* polls issued so far: client and generation
  inflight,                  \* polls issued and not yet settled
  handed,                    \* the poll whose sample was handed to setStatus last
  applied,                   \* the poll whose sample was committed last
  loading,
  fetchError,                \* the panel's `error' state
  isInitialLoad,
  \* ---- StreamTimeboostedTxsComponent
  queuedFeed,                \* the feed's hooks with the queued updates applied
  transactions,
  isStreaming,
  error,
  totalCount,
  unwatchRef,
  shown,                     \* the isNew flag of every row, as last rendered
  \* ---- the streaming library and the pending continuations
  subs,                      \* subscriptions opened so far: client and generation
  live,                      \* subscriptions opened and not yet released
  stopWaits,                 \* stopStreaming calls suspended at their await
  resetWaits,                \* resetComponent calls suspended at their await
  emitted,                   \* events delivered so far, over all subscriptions
  received,                  \* onTransaction calls since the last clearing
  switches,                  \* target switches so far
  last                       \* the feed handler that ran last, and its argument

pollVars == <<pollTimers, polls, inflight, handed, applied, loading, fetchError,
              isInitialLoad>>

countdownVars == <<status, localCountdown, localRoundStartCountdown,
                   countdownIntervalRef, roundStartIntervalRef, lastSyncTimeRef,
                   controller, localTimeRemaining, controllerIntervalRef,
                   controllerLastSyncTimeRef, queued, effects, call, base, ticks,
                   timers, pollVars>>

auctionVars == <<status, localCountdown, localRoundStartCountdown,
                 countdownIntervalRef, roundStartIntervalRef, lastSyncTimeRef>>

controllerVars == <<controller, localTimeRemaining, controllerIntervalRef,
                    controllerLastSyncTimeRef>>

feedVars == <<queuedFeed, transactions, isStreaming, error, totalCount, unwatchRef, shown,
              subs, live, stopWaits, resetWaits, emitted, received, switches,
              last>>

vars == <<now, selectedChain, mounted, countdownVars, feedVars>>

(***************************************************************************)
(* Bounds of the exploration.                                              *)
(***************************************************************************)
MaxSample == 3        \* samples report 0..MaxSample seconds
MaxClockSteps == 4    \* the clock advances at most this many times
MaxEvents == 2        \* events delivered in a lifecycle behaviour
MaxStream == 25       \* events delivered in a long-stream behaviour
MaxStreamSubs == 1    \* subscriptions opened in a long-stream behaviour
MaxBatch == 2         \* events of a long stream between two renders
MaxStreamClockSteps == 1   \* clock advances before a long stream
MaxSubs == 2          \* subscriptions opened in one behaviour
MaxSwitches == 1      \* target switches in one behaviour
MaxPolls == 2         \* polls issued in one behaviour

(***************************************************************************)
(* Program constants.                                                      *)
(***************************************************************************)
Null == 0 - 1                 \* null of a `number | null' state or ref
ResyncWindowMs == 3000
ResyncTolerance == 2
TickMs == 1000
Capacity == 20
FreshMs == 3000

Epoch == ResyncWindowMs + TickMs     \* Date.now() at mount; far beyond the window

Chains == {"arbitrum", "arbitrum-sepolia"}
Countdowns == {"auctionCloses", "roundStarts", "timeRemaining"}

Abs(x) == IF x < 0 THEN 0 - x ELSE x

Min(a, b) == IF a < b THEN a ELSE b

\* `error ? ... : ...' on a `string | null' state: null and '' are falsy.
Truthy(text) == text /= "null" /\ text /= ""

(***************************************************************************)
(* Samples returned by the polls.                                          *)
(***************************************************************************)
NoStatus == [currentPhase |-> "null", timeUntilAuctionCloses |-> 0,
             timeUntilRoundStarts |-> 0]

AuctionSample(p, v) ==
  [currentPhase |-> p,
   timeUntilAuctionCloses |-> IF p = "bidding" THEN v ELSE 0,
   timeUntilRoundStarts |-> IF p = "bidding" THEN v + 1
                            ELSE IF p \in {"closing", "resolving"} THEN v ELSE 0]

AuctionSamples ==
  {AuctionSample(p, v) : p \in {"bidding", "closing", "resolving"}, v \in 0..MaxSample}
    \cup {AuctionSample(p, 0) : p \in {"active", "unknown"}}

NoController == [currentController |-> "null", timeRemainingInRound |-> 0]

ControllerSamples ==
  {[currentController |-> a, timeRemainingInRound |-> v] :
     a \in {"null", "0xc0"}, v \in 0..MaxSample}

\* Resync policy without the staleness clause.
ShouldResync_IgnoresStaleness(local, timeSinceLastSync, sample) ==
  \/ local = Null
  \/ local = 0
  \/ Abs(local - sample) > ResyncTolerance

\* Resync policy without the drift clause.
ShouldResync_IgnoresDrift(local, timeSinceLastSync, sample) ==
  \/ local = Null
  \/ local = 0
  \/ timeSinceLastSync > ResyncWindowMs

(***************************************************************************)
(* The resync policy: `!local || timeSinceLastSync > 3000 ||               *)
(* Math.abs(local - sample) > 2'.  !local holds for null and for 0.        *)
(***************************************************************************)
ShouldResync(local, timeSinceLastSync, sample) ==
  \/ local = Null
  \/ local = 0
  \/ timeSinceLastSync > ResyncWindowMs
  \/ Abs(local - sample) > ResyncTolerance

(***************************************************************************)
(* What the resync effect leaves queued for a countdown: the policy is     *)
(* decided on `local', the value of the render the effect belongs to; a    *)
(* set replaces whatever the interval callbacks queued since that render,  *)
(* and without a set `pending', the value they queued, stays.              *)
(***************************************************************************)
Resync(local, pending, timeSinceLastSync, sample) ==
  IF ShouldResync(local, timeSinceLastSync, sample) THEN sample ELSE pending

\* Sync time that is recorded only when the displayed value was replaced.
SyncTimeAfter_OnlyWhenReplaced(lastSync, t, replaced) ==
  IF replaced THEN t ELSE lastSync

\* lastSyncTimeRef.current = now, whether or not a countdown was replaced.
SyncTimeAfter(lastSync, t, replaced) == t

(***************************************************************************)
(* The interval callback's updater: prev => prev === null || prev <= 0 ?   *)
(* null : prev - 1.                                                        *)
(***************************************************************************)
TickValue(prev) ==
  IF prev = Null \/ prev <= 0 THEN Null ELSE prev - 1

\* The dependency of a ticker effect, [local !== null], differs between two
\* renders.
TickerDeps(old, new) == (old /= Null) /= (new /= Null)

(***************************************************************************)
(* The ticker effect on its ref, when it runs (`run'): the interval the    *)
(* ref holds is cleared and one is started when the rendered value is > 0. *)
(***************************************************************************)
TickerEffect(run, local, ref) ==
  IF ~run THEN ref ELSE (local /= Null /\ local > 0)

\* Ticker effect that starts an interval without clearing the one it holds.
TickerTimers_KeepsOld(run, local, ref, running, gen) ==
  IF ~run THEN running
  ELSE IF local /= Null /\ local > 0 THEN Append(running, gen) ELSE running

(***************************************************************************)
(* The timers the ticker effect leaves with the host: clearInterval on the *)
(* one the ref holds (the one created last), then setInterval when the     *)
(* rendered value is > 0.  gen tags the new timer with the target switches *)
(* seen when it is created.                                                *)
(***************************************************************************)
TickerTimers(run, local, ref, running, gen) ==
  IF ~run THEN running
  ELSE LET cleared == IF ref THEN SubSeq(running, 1, Len(running) - 1) ELSE running
       IN IF local /= Null /\ local > 0 THEN Append(cleared, gen) ELSE cleared

(***************************************************************************)
(* The state after mount and the mount effects: no sample yet, every       *)
(* countdown absent, no interval running, lastSyncTimeRef 0, nothing       *)
(* streamed.  The first render saw loading = false; the poll effect of a   *)
(* countdown panel has set its interval and called fetchStatus /           *)
(* fetchController, which queued setLoading(true) and awaits the first     *)
(* poll.                                                                   *)
(***************************************************************************)
NoCall == [on |-> <<NoStatus, NoController>>,
           timeSinceLastSync |-> Null,
           prev |-> [c \in Countdowns |-> Null],
           pending |-> [c \in Countdowns |-> Null],
           sample |-> [c \in Countdowns |-> Null]]

NoneReplaced == [c \in Countdowns |-> FALSE]

Panels == {"AuctionStatus", "ExpressLaneController", "StreamTimeboostedTxs"}

CountdownPanels == {"AuctionStatus", "ExpressLaneController"}

Init ==
  /\ now = Epoch
  /\ selectedChain = "arbitrum"
  /\ mounted \in Panels
  /\ status = NoStatus
  /\ localCountdown = Null
  /\ localRoundStartCountdown = Null
  /\ countdownIntervalRef = FALSE
  /\ roundStartIntervalRef = FALSE
  /\ lastSyncTimeRef = 0
  /\ controller = NoController
  /\ localTimeRemaining = Null
  /\ controllerIntervalRef = FALSE
  /\ controllerLastSyncTimeRef = 0
  /\ queued = [status |-> NoStatus, localCountdown |-> Null,
               localRoundStartCountdown |-> Null, controller |-> NoController,
               localTimeRemaining |-> Null,
               loading |-> (mounted \in CountdownPanels), error |-> "null",
               isInitialLoad |-> TRUE, sample |-> FALSE, replaced |-> NoneReplaced]
  /\ effects = {}
  /\ call = NoCall
  /\ base = [c \in Countdowns |-> Null]
  /\ ticks = [c \in Countdowns |-> 0]
  /\ timers = [c \in Countdowns |-> <<>>]
  /\ pollTimers = IF mounted \in CountdownPanels
                  THEN <<[client |-> "arbitrum", gen |-> 0]>> ELSE <<>>
  /\ polls = IF mounted \in CountdownPanels
             THEN <<[client |-> "arbitrum", gen |-> 0]>> ELSE <<>>
  /\ inflight = IF mounted \in CountdownPanels THEN {1} ELSE {}
  /\ handed = 0
  /\ applied = 0
  /\ loading = FALSE
  /\ fetchError = "null"
  /\ isInitialLoad = TRUE
  /\ queuedFeed = [transactions |-> <<>>, isStreaming |-> FALSE, error |-> "null",
                   totalCount |-> 0]
  /\ transactions = <<>>
  /\ isStreaming = FALSE
  /\ error = "null"
  /\ totalCount = 0
  /\ unwatchRef = 0
  /\ shown = <<>>
  /\ subs = <<>>
  /\ live = {}
  /\ stopWaits = {}
  /\ resetWaits = {}
  /\ emitted = 0
  /\ received = 0
  /\ switches = 0
  /\ last = [op |-> "mount", arg |-> ""]

(***************************************************************************)
(* The clock.  Time passes in steps of one ticker period.                  *)
(***************************************************************************)
Advance ==
  /\ now < Epoch + MaxClockSteps * TickMs
  /\ now' = now + TickMs
  /\ call' = NoCall
  /\ UNCHANGED <<selectedChain, mounted, auctionVars, controllerVars, queued, effects,
                 base, ticks, timers, pollVars, feedVars>>

\* Round-start branch that forgets to clear the countdown in phase bidding.
RoundStartAfter_KeptInBidding(s, local, pending, timeSinceLastSync) ==
  IF s.currentPhase \in {"closing", "resolving"}
  THEN Resync(local, pending, timeSinceLastSync, s.timeUntilRoundStarts)
  ELSE IF s.currentPhase = "bidding" THEN pending ELSE Null

(***************************************************************************)
(* The resync effect of AuctionStatus, by phase: the auction-close         *)
(* countdown is reconciled in bidding and cleared otherwise; the           *)
(* round-start countdown is reconciled in closing and resolving and        *)
(* cleared otherwise.                                                      *)
(***************************************************************************)
AuctionCloseAfter(s, local, pending, timeSinceLastSync) ==
  IF s.currentPhase = "bidding"
  THEN Resync(local, pending, timeSinceLastSync, s.timeUntilAuctionCloses)
  ELSE Null

RoundStartAfter(s, local, pending, timeSinceLastSync) ==
  IF s.currentPhase \in {"closing", "resolving"}
  THEN Resync(local, pending, timeSinceLastSync, s.timeUntilRoundStarts)
  ELSE Null

\* The hooks of the countdown panel as the last render saw them.
Hooks ==
  [status |-> status, localCountdown |-> localCountdown,
   localRoundStartCountdown |-> localRoundStartCountdown,
   controller |-> controller, localTimeRemaining |-> localTimeRemaining,
   loading |-> loading, error |-> fetchError, isInitialLoad |-> isInitialLoad,
   sample |-> FALSE, replaced |-> NoneReplaced]

\* An update is queued that React has to render: a new status / controller
\* object, or a value that differs from the rendered one.
Dirty == [queued EXCEPT !.replaced = NoneReplaced] /= Hooks

\* The state of a countdown's hook, as rendered and with the queued updates.
Local(c) ==
  IF c = "auctionCloses" THEN localCountdown
  ELSE IF c = "roundStarts" THEN localRoundStartCountdown
  ELSE localTimeRemaining

Queued(c) ==
  IF c = "auctionCloses" THEN queued.localCountdown
  ELSE IF c = "roundStarts" THEN queued.localRoundStartCountdown
  ELSE queued.localTimeRemaining

\* Whether a countdown's one-second interval is running.
Ticking(c) ==
  IF c = "auctionCloses" THEN countdownIntervalRef
  ELSE IF c = "roundStarts" THEN roundStartIntervalRef
  ELSE controllerIntervalRef

(***************************************************************************)
(* AuctionStatus: a poll resolves with sample s and the continuation of    *)
(* fetchStatus runs: setStatus(s), setIsInitialLoad(false) and, in the     *)
(* finally, setLoading(false) are queued.                                  *)
(***************************************************************************)
OnStatus(s) ==
  /\ mounted = "AuctionStatus"
  /\ queued' = [queued EXCEPT !.status = s, !.sample = TRUE,
                              !.isInitialLoad = FALSE, !.loading = FALSE]
  /\ call' = NoCall
  /\ UNCHANGED <<now, selectedChain, mounted, auctionVars, controllerVars, effects,
                 base, ticks, timers, pollTimers, polls, applied, loading,
                 fetchError, isInitialLoad, feedVars>>

(***************************************************************************)
(* AuctionStatus: the one-second interval of the auction-close countdown   *)
(* fires and its callback queues the updater.                              *)
(***************************************************************************)
CountdownTick ==
  /\ mounted = "AuctionStatus"
  /\ timers["auctionCloses"] /= <<>>
  /\ queued' = [queued EXCEPT !.localCountdown = TickValue(@)]
  /\ ticks' = [ticks EXCEPT !["auctionCloses"] = IF queued.localCountdown = Null THEN @ ELSE @ + 1]
  /\ call' = NoCall
  /\ UNCHANGED <<now, selectedChain, mounted, auctionVars, controllerVars, effects,
                 base, timers, pollVars, feedVars>>

(***************************************************************************)
(* AuctionStatus: the one-second interval of the round-start countdown     *)
(* fires.                                                                  *)
(***************************************************************************)
RoundStartTick ==
  /\ mounted = "AuctionStatus"
  /\ timers["roundStarts"] /= <<>>
  /\ queued' = [queued EXCEPT !.localRoundStartCountdown = TickValue(@)]
  /\ ticks' = [ticks EXCEPT !["roundStarts"] = IF queued.localRoundStartCountdown = Null THEN @ ELSE @ + 1]
  /\ call' = NoCall
  /\ UNCHANGED <<now, selectedChain, mounted, auctionVars, controllerVars, effects,
                 base, timers, pollVars, feedVars>>

(***************************************************************************)
(* ExpressLaneController: a poll resolves with sample s and the            *)
(* continuation of fetchController runs.                                   *)
(***************************************************************************)
OnController(s) ==
  /\ mounted = "ExpressLaneController"
  /\ queued' = [queued EXCEPT !.controller = s, !.sample = TRUE,
                              !.isInitialLoad = FALSE, !.loading = FALSE]
  /\ call' = NoCall
  /\ UNCHANGED <<now, selectedChain, mounted, auctionVars, controllerVars, effects,
                 base, ticks, timers, pollTimers, polls, applied, loading,
                 fetchError, isInitialLoad, feedVars>>

(***************************************************************************)
(* ExpressLaneController: the one-second interval fires.                   *)
(***************************************************************************)
ControllerTick ==
  /\ mounted = "ExpressLaneController"
  /\ timers["timeRemaining"] /= <<>>
  /\ queued' = [queued EXCEPT !.localTimeRemaining = TickValue(@)]
  /\ ticks' = [ticks EXCEPT !["timeRemaining"] = IF queued.localTimeRemaining = Null THEN @ ELSE @ + 1]
  /\ call' = NoCall
  /\ UNCHANGED <<now, selectedChain, mounted, auctionVars, controllerVars, effects,
                 base, timers, pollVars, feedVars>>

(***************************************************************************)
(* React renders the panel with every update queued so far and commits.    *)
(* The effects whose dependencies changed are left to run: the resync      *)
(* effect when a status / controller object was set, a ticker effect when  *)
(* `local !== null' changed.  The effects of the commit before have run    *)
(* by then: React runs them before it renders again.                       *)
(***************************************************************************)
Commit ==
  /\ mounted \in CountdownPanels
  /\ effects = {}
  /\ Dirty
  /\ status' = queued.status
  /\ localCountdown' = queued.localCountdown
  /\ localRoundStartCountdown' = queued.localRoundStartCountdown
  /\ controller' = queued.controller
  /\ localTimeRemaining' = queued.localTimeRemaining
  /\ loading' = queued.loading
  /\ fetchError' = queued.error
  /\ isInitialLoad' = queued.isInitialLoad
  /\ queued' = [queued EXCEPT !.sample = FALSE, !.replaced = NoneReplaced]
  /\ effects' = (IF queued.sample THEN {"resync"} ELSE {})
                  \cup {c \in Countdowns : TickerDeps(Local(c), Queued(c))}
  /\ applied' = IF queued.sample THEN handed ELSE applied
  /\ call' = call
  /\ UNCHANGED <<now, selectedChain, mounted, countdownIntervalRef,
                 roundStartIntervalRef, lastSyncTimeRef, controllerIntervalRef,
                 controllerLastSyncTimeRef, base, ticks, timers, pollTimers, polls,
                 inflight, handed, feedVars>>

(***************************************************************************)
(* The effects of the last commit run, with the values of that render.     *)
(* The resync effect of AuctionStatus reconciles the two countdowns with   *)
(* the committed status and records the sync time; the one of              *)
(* ExpressLaneController clears the countdown and returns, before it       *)
(* touches lastSyncTimeRef, when there is no current controller.  Their    *)
(* state updates are queued.  A ticker effect clears the interval its ref  *)
(* holds and starts one when the committed value is > 0.                   *)
(***************************************************************************)
Effects ==
  /\ mounted \in CountdownPanels
  /\ effects /= {}
  /\ LET onStatus == /\ "resync" \in effects
                     /\ mounted = "AuctionStatus"
                     /\ status /= NoStatus
         onController == "resync" \in effects /\ mounted = "ExpressLaneController"
         has == controller.currentController /= "null"
         timeSinceLastSync ==
           IF mounted = "AuctionStatus" THEN now - lastSyncTimeRef
           ELSE now - controllerLastSyncTimeRef
         closes == IF onStatus
                   THEN AuctionCloseAfter(status, localCountdown, queued.localCountdown,
                                          timeSinceLastSync)
                   ELSE queued.localCountdown
         starts == IF onStatus
                   THEN RoundStartAfter(status, localRoundStartCountdown,
                                        queued.localRoundStartCountdown,
                                        timeSinceLastSync)
                   ELSE queued.localRoundStartCountdown
         remaining == IF ~onController THEN queued.localTimeRemaining
                      ELSE IF has
                      THEN Resync(localTimeRemaining, queued.localTimeRemaining,
                                  timeSinceLastSync, controller.timeRemainingInRound)
                      ELSE Null
         sample == [c \in Countdowns |->
                      IF c = "auctionCloses"
                      THEN IF onStatus /\ status.currentPhase = "bidding"
                           THEN status.timeUntilAuctionCloses ELSE Null
                      ELSE IF c = "roundStarts"
                      THEN IF onStatus /\ status.currentPhase \in {"closing", "resolving"}
                           THEN status.timeUntilRoundStarts ELSE Null
                      ELSE IF onController /\ has
                           THEN controller.timeRemainingInRound ELSE Null]
     IN /\ queued' = [queued EXCEPT
                        !.localCountdown = closes,
                        !.localRoundStartCountdown = starts,
                        !.localTimeRemaining = remaining,
                        !.replaced =
                           [c \in Countdowns |->
                              \/ @[c]
                              \/ /\ sample[c] /= Null
                                 /\ ShouldResync(Local(c), timeSinceLastSync,
                                                 sample[c])]]
        /\ lastSyncTimeRef' =
             IF onStatus
             THEN SyncTimeAfter(lastSyncTimeRef, now,
                                closes /= queued.localCountdown
                                  \/ starts /= queued.localRoundStartCountdown)
             ELSE lastSyncTimeRef
        /\ controllerLastSyncTimeRef' =
             IF onController /\ has
             THEN SyncTimeAfter(controllerLastSyncTimeRef, now,
                                remaining /= queued.localTimeRemaining)
             ELSE controllerLastSyncTimeRef
        /\ call' = IF onStatus \/ onController
                   THEN [on |-> <<status, controller>>,
                         timeSinceLastSync |-> timeSinceLastSync,
                         prev |-> [c \in Countdowns |->
                                     IF (c = "timeRemaining") = onController
                                     THEN Local(c) ELSE Null],
                         pending |-> [c \in Countdowns |->
                                        IF (c = "timeRemaining") = onController
                                        THEN Queued(c) ELSE Null],
                         sample |-> sample]
                   ELSE NoCall
        /\ base' = IF onStatus
                   THEN [base EXCEPT !["auctionCloses"] = closes,
                                     !["roundStarts"] = starts]
                   ELSE IF onController
                   THEN [base EXCEPT !["timeRemaining"] = remaining]
                   ELSE base
        /\ ticks' = IF onStatus
                    THEN [ticks EXCEPT !["auctionCloses"] = 0, !["roundStarts"] = 0]
                    ELSE IF onController
                    THEN [ticks EXCEPT !["timeRemaining"] = 0]
                    ELSE ticks
  /\ countdownIntervalRef' =
       TickerEffect("auctionCloses" \in effects, localCountdown, countdownIntervalRef)
  /\ roundStartIntervalRef' =
       TickerEffect("roundStarts" \in effects, localRoundStartCountdown,
                    roundStartIntervalRef)
  /\ controllerIntervalRef' =
       TickerEffect("timeRemaining" \in effects, localTimeRemaining,
                    controllerIntervalRef)
  /\ timers' = [c \in Countdowns |->
                  TickerTimers(c \in effects, Local(c), Ticking(c), timers[c],
                               switches)]
  /\ effects' = {}
  /\ UNCHANGED <<now, selectedChain, mounted, status, localCountdown,
                 localRoundStartCountdown, controller, localTimeRemaining, pollVars,
                 feedVars>>

(***************************************************************************)
(* What the panel shows for a countdown, -1 when it shows none.  The       *)
(* spinner of the first load and the ERROR panel replace the whole status; *)
(* AuctionStatus shows a countdown in its own phases while its hook is not *)
(* null; ExpressLaneController shows, for a current controller, the hook   *)
(* or, when the hook is null, the sample's timeRemainingInRound.           *)
(***************************************************************************)
Displayed(c) ==
  IF mounted \notin CountdownPanels THEN Null
  ELSE IF isInitialLoad /\ loading THEN Null
  ELSE IF Truthy(fetchError) THEN Null
  ELSE IF c = "auctionCloses"
  THEN IF status.currentPhase = "bidding" THEN localCountdown ELSE Null
  ELSE IF c = "roundStarts"
  THEN IF status.currentPhase \in {"closing", "resolving"}
       THEN localRoundStartCountdown ELSE Null
  ELSE IF controller.currentController = "null" THEN Null
  ELSE IF localTimeRemaining /= Null THEN localTimeRemaining
  ELSE controller.timeRemainingInRound

(***************************************************************************)
(* StreamTimeboostedTxsComponent.                                          *)
(***************************************************************************)
ErrorMessages == {"", "rpc down"}

\* Block numbers as the source reports them: neighbours arrive swapped, so the
\* order of receipt is not the order of the chain.
BlockOf(n) == IF n % 2 = 1 THEN n + 1 ELSE n - 1

\* prev.slice(a, b) of a JavaScript array, 0-based and end-exclusive.
Slice(seq, a, b) == SubSeq(seq, a + 1, Min(b, Len(seq)))

\* Prepend that keeps one entry too many: prev.slice(0, 20).
Prepend_KeepsTwentyOne(tx, prev) == <<tx>> \o Slice(prev, 0, Capacity)

\* [txWithTimestamp, ...prev.slice(0, 19)]
Prepend(tx, prev) == <<tx>> \o Slice(prev, 0, Capacity - 1)

\* Counter that stops with the buffer.
Increment_StopsAtCapacity(prev) == Min(prev + 1, Capacity)

\* setTotalCount's updater: prev => prev + 1
Increment(prev) == prev + 1

\* err.message || 'Streaming error occurred'
StreamErrorText(message) ==
  IF message = "" THEN "Streaming error occurred" ELSE message

\* err instanceof Error ? err.message : 'Failed to start streaming'
StartErrorText(thrown) ==
  IF thrown.isError THEN thrown.message ELSE "Failed to start streaming"

Thrown == {[isError |-> e, message |-> "rpc down"] : e \in BOOLEAN}

\* The next event of the source, delivered by subscription s.
Event(s) == [hash |-> emitted + 1, blockNumber |-> BlockOf(emitted + 1), from |-> s]

\* const isNew = Date.now() - tx.timestamp < 3000
IsNew(tx, t) == t - tx.timestamp < FreshMs

\* The isNew flags of the rows on screen: with an error the ERROR panel is
\* rendered in place of the rows.
Rows(txs, err, t) ==
  IF Truthy(err) THEN <<>> ELSE [i \in 1..Len(txs) |-> IsNew(txs[i], t)]

\* The hooks of the feed as the last render saw them.
FeedHooks ==
  [transactions |-> transactions, isStreaming |-> isStreaming, error |-> error,
   totalCount |-> totalCount]

\* A state update of the feed is queued that React has to render.
FeedDirty == queuedFeed /= FeedHooks

\* The hooks after setIsStreaming(false), setTransactions([]),
\* setTotalCount(0), setError(null).
ClearedFeed ==
  [transactions |-> <<>>, isStreaming |-> FALSE, error |-> "null", totalCount |-> 0]

(***************************************************************************)
(* React renders the feed with every update queued so far.  The component *)
(* is rendered when its state or props changed, and only then: the isNew   *)
(* flag of every row is computed from Date.now() during the render and     *)
(* stays on screen until the next one.                                     *)
(***************************************************************************)
FeedRender ==
  /\ mounted = "StreamTimeboostedTxs"
  /\ FeedDirty
  /\ transactions' = queuedFeed.transactions
  /\ isStreaming' = queuedFeed.isStreaming
  /\ error' = queuedFeed.error
  /\ totalCount' = queuedFeed.totalCount
  /\ shown' = Rows(queuedFeed.transactions, queuedFeed.error, now)
  /\ last' = [op |-> "render", arg |-> last.op]
  /\ UNCHANGED <<now, selectedChain, mounted, countdownVars, queuedFeed, unwatchRef,
                 subs, live, stopWaits, resetWaits, emitted, received, switches>>

(***************************************************************************)
(* START STREAM is clicked (the button rendered last offers it while       *)
(* isStreaming is false) and client.streamTimeboostedTxs returns a handle. *)
(* The four updates of the click are rendered before the event ends.       *)
(***************************************************************************)
StartStreaming ==
  /\ mounted = "StreamTimeboostedTxs"
  /\ ~isStreaming
  /\ Len(subs) < MaxSubs
  /\ isStreaming' = TRUE
  /\ error' = "null"
  /\ transactions' = <<>>
  /\ totalCount' = 0
  /\ queuedFeed' = [ClearedFeed EXCEPT !.isStreaming = TRUE]
  /\ shown' = Rows(<<>>, "null", now)
  /\ received' = 0
  /\ subs' = Append(subs, [client |-> selectedChain, gen |-> switches])
  /\ live' = live \cup {Len(subs) + 1}
  /\ unwatchRef' = Len(subs) + 1
  /\ last' = [op |-> "startStreaming", arg |-> ""]
  /\ UNCHANGED <<now, selectedChain, mounted, countdownVars, stopWaits, resetWaits,
                 emitted, switches>>

(***************************************************************************)
(* START STREAM is clicked and client.streamTimeboostedTxs throws: nothing *)
(* is opened and unwatchRef keeps what it held.                            *)
(***************************************************************************)
StartStreamingThrows(thrown) ==
  /\ mounted = "StreamTimeboostedTxs"
  /\ ~isStreaming
  /\ isStreaming' = FALSE
  /\ error' = StartErrorText(thrown)
  /\ transactions' = <<>>
  /\ totalCount' = 0
  /\ queuedFeed' = [ClearedFeed EXCEPT !.error = StartErrorText(thrown)]
  /\ shown' = Rows(<<>>, StartErrorText(thrown), now)
  /\ received' = 0
  /\ last' = [op |-> "startStreaming", arg |-> thrown.message]
  /\ UNCHANGED <<now, selectedChain, mounted, countdownVars, unwatchRef, subs, live,
                 stopWaits, resetWaits, emitted, switches>>

(***************************************************************************)
(* onTransaction(tx), called by a subscription that is still open: the two *)
(* updaters are queued.                                                    *)
(***************************************************************************)
OnTransaction(tx) ==
  /\ mounted = "StreamTimeboostedTxs"
  /\ tx.from \in live
  /\ queuedFeed' =
       [queuedFeed EXCEPT
          !.transactions =
             Prepend([hash |-> tx.hash, blockNumber |-> tx.blockNumber,
                      from |-> tx.from, timestamp |-> now], @),
          !.totalCount = Increment(@)]
  /\ emitted' = emitted + 1
  /\ received' = received + 1
  /\ last' = [op |-> "onTransaction", arg |-> ""]
  /\ UNCHANGED <<now, selectedChain, mounted, countdownVars, transactions, isStreaming,
                 error, totalCount, shown, unwatchRef, subs, live, stopWaits,
                 resetWaits, switches>>

\* onError that also clears what was streamed.
OnError_ClearsFeed(s, message, ends) ==
  /\ mounted = "StreamTimeboostedTxs"
  /\ s \in live
  /\ queuedFeed' = [ClearedFeed EXCEPT !.error = StreamErrorText(message)]
  /\ live' = IF ends THEN live \ {s} ELSE live
  /\ last' = [op |-> "onError", arg |-> message]
  /\ UNCHANGED <<now, selectedChain, mounted, countdownVars, transactions, isStreaming,
                 error, totalCount, shown, unwatchRef, subs, stopWaits, resetWaits,
                 emitted, received, switches>>

(***************************************************************************)
(* onError(err), called by a subscription that is still open: setError and *)
(* setIsStreaming(false) are queued.  Whether the library closes the       *)
(* subscription after reporting is its own business: `ends' covers both.   *)
(* The component releases nothing here.                                    *)
(***************************************************************************)
OnError(s, message, ends) ==
  /\ mounted = "StreamTimeboostedTxs"
  /\ s \in live
  /\ queuedFeed' = [queuedFeed EXCEPT !.error = StreamErrorText(message),
                                      !.isStreaming = FALSE]
  /\ live' = IF ends THEN live \ {s} ELSE live
  /\ last' = [op |-> "onError", arg |-> message]
  /\ UNCHANGED <<now, selectedChain, mounted, countdownVars, transactions, isStreaming,
                 error, totalCount, shown, unwatchRef, subs, stopWaits, resetWaits,
                 emitted, received, switches>>

\* stopStreaming that also clears what was streamed.
StopStreamingCall_ClearsFeed ==
  /\ mounted = "StreamTimeboostedTxs"
  /\ isStreaming' = FALSE
  /\ transactions' = <<>>
  /\ totalCount' = 0
  /\ queuedFeed' = [queuedFeed EXCEPT !.isStreaming = FALSE, !.transactions = <<>>,
                                      !.totalCount = 0]
  /\ shown' = Rows(<<>>, error, now)
  /\ stopWaits' = IF unwatchRef /= 0 THEN stopWaits \cup {unwatchRef} ELSE stopWaits
  /\ last' = [op |-> "stopStreaming", arg |-> IF isStreaming THEN "" ELSE "idle"]
  /\ UNCHANGED <<now, selectedChain, mounted, countdownVars, error,
                 unwatchRef, subs, live, resetWaits, emitted, received,
                 switches>>

(***************************************************************************)
(* stopStreaming() up to its await: setIsStreaming(false), rendered before *)
(* the click ends when it changes the state, and the release of the stored *)
(* handle is requested when there is one.                                  *)
(***************************************************************************)
StopStreamingCall ==
  /\ mounted = "StreamTimeboostedTxs"
  /\ isStreaming' = FALSE
  /\ queuedFeed' = [queuedFeed EXCEPT !.isStreaming = FALSE]
  /\ shown' = IF isStreaming THEN Rows(transactions, error, now) ELSE shown
  /\ stopWaits' = IF unwatchRef /= 0 THEN stopWaits \cup {unwatchRef} ELSE stopWaits
  /\ last' = [op |-> "stopStreaming", arg |-> IF isStreaming THEN "" ELSE "idle"]
  /\ UNCHANGED <<now, selectedChain, mounted, countdownVars, transactions, error,
                 totalCount, unwatchRef, subs, live, resetWaits, emitted, received,
                 switches>>

(***************************************************************************)
(* STOP STREAM is clicked (the button rendered last offers it while        *)
(* isStreaming is true).                                                   *)
(***************************************************************************)
StopStreaming ==
  /\ isStreaming
  /\ StopStreamingCall

(***************************************************************************)
(* stopStreaming() is called while nothing streams and no handle is        *)
(* stored.                                                                 *)
(***************************************************************************)
StopStreamingIdle ==
  /\ ~isStreaming
  /\ ~queuedFeed.isStreaming
  /\ unwatchRef = 0
  /\ StopStreamingCall

(***************************************************************************)
(* The release awaited by stopStreaming resolves and stopStreaming         *)
(* resumes, mounted or not: unwatchRef.current = null.                     *)
(***************************************************************************)
StopResume(s) ==
  /\ s \in stopWaits
  /\ stopWaits' = stopWaits \ {s}
  /\ live' = live \ {s}
  /\ unwatchRef' = 0
  /\ last' = [op |-> "stopStreaming resumed", arg |-> ""]
  /\ UNCHANGED <<now, selectedChain, mounted, countdownVars, transactions, isStreaming,
                 error, totalCount, queuedFeed, shown, subs, resetWaits, emitted,
                 received, switches>>

(***************************************************************************)
(* The other chain is selected in App: React renders the change at once,   *)
(* the feed with its new props and the state of its last render, and the   *)
(* resetComponent effect runs, up to its await when a handle is stored and *)
(* to its end, where it queues the four updates, otherwise.                *)
(***************************************************************************)
SwitchChain(chain) ==
  /\ mounted = "StreamTimeboostedTxs"
  /\ chain /= selectedChain
  /\ switches < MaxSwitches
  /\ selectedChain' = chain
  /\ switches' = switches + 1
  /\ shown' = Rows(transactions, error, now)
  /\ last' = [op |-> "resetComponent", arg |-> ""]
  /\ IF unwatchRef /= 0
     THEN /\ resetWaits' = resetWaits \cup {unwatchRef}
          /\ UNCHANGED <<queuedFeed, received>>
     ELSE /\ queuedFeed' = ClearedFeed
          /\ received' = 0
          /\ UNCHANGED resetWaits
  /\ UNCHANGED <<now, mounted, countdownVars, transactions, isStreaming, error,
                 totalCount, unwatchRef, subs, live, stopWaits, emitted>>

(***************************************************************************)
(* The release awaited by resetComponent resolves and resetComponent       *)
(* resumes: the handle is dropped and the four updates are queued, which   *)
(* React ignores once the feed is unmounted.                               *)
(***************************************************************************)
ResetResume(s) ==
  /\ s \in resetWaits
  /\ resetWaits' = resetWaits \ {s}
  /\ live' = live \ {s}
  /\ unwatchRef' = 0
  /\ queuedFeed' = IF mounted = "StreamTimeboostedTxs" THEN ClearedFeed ELSE queuedFeed
  /\ received' = IF mounted = "StreamTimeboostedTxs" THEN 0 ELSE received
  /\ last' = [op |-> "resetComponent resumed", arg |-> ""]
  /\ UNCHANGED <<now, selectedChain, mounted, countdownVars, transactions, isStreaming,
                 error, totalCount, shown, subs, stopWaits, emitted, switches>>

(***************************************************************************)
(* The feed is unmounted: the cleanup calls the stored handle, without     *)
(* waiting, and the library closes that subscription.  What the handlers   *)
(* and continuations do afterwards reaches no component.                   *)
(***************************************************************************)
UnmountFeed ==
  /\ mounted = "StreamTimeboostedTxs"
  /\ mounted' = "none"
  /\ live' = live \ {unwatchRef}
  /\ shown' = <<>>
  /\ last' = [op |-> "unmount", arg |-> ""]
  /\ UNCHANGED <<now, selectedChain, countdownVars, transactions, isStreaming, error,
                 totalCount, queuedFeed, unwatchRef, subs, stopWaits, resetWaits,
                 emitted, received, switches>>

(***************************************************************************)
(* The feed with every interleaving of its handlers, of React's renders    *)
(* and of the clock, on short streams.                                     *)
(***************************************************************************)
InitFeed == Init /\ mounted = "StreamTimeboostedTxs"

NextFeed ==
  \/ Advance
  \/ StartStreaming
  \/ \E thrown \in Thrown : StartStreamingThrows(thrown)
  \/ \E s \in live : emitted < MaxEvents /\ OnTransaction(Event(s))
  \/ \E s \in live, m \in ErrorMessages, ends \in BOOLEAN : OnError(s, m, ends)
  \/ StopStreaming
  \/ StopStreamingIdle
  \/ \E s \in stopWaits : StopResume(s)
  \/ \E chain \in Chains : SwitchChain(chain)
  \/ \E s \in resetWaits : ResetResume(s)
  \/ FeedRender
  \/ UnmountFeed

SpecFeed == InitFeed /\ [][NextFeed]_vars

(***************************************************************************)
(* The feed on long streams: the same handlers, with more events, fewer   *)
(* subscriptions, a clock that advances before the first event only, and  *)
(* at most MaxBatch events between two renders.                            *)
(***************************************************************************)
NextBuffer ==
  \/ emitted = 0 /\ now < Epoch + MaxStreamClockSteps * TickMs /\ Advance
  \/ Len(subs) < MaxStreamSubs /\ StartStreaming
  \/ \E thrown \in Thrown : StartStreamingThrows(thrown)
  \/ \E s \in live : /\ emitted < MaxStream
                     /\ queuedFeed.totalCount - totalCount < MaxBatch
                     /\ OnTransaction(Event(s))
  \/ \E s \in live, m \in ErrorMessages, ends \in BOOLEAN : OnError(s, m, ends)
  \/ StopStreaming
  \/ StopStreamingIdle
  \/ \E s \in stopWaits : StopResume(s)
  \/ \E chain \in Chains : SwitchChain(chain)
  \/ \E s \in resetWaits : ResetResume(s)
  \/ FeedRender
  \/ UnmountFeed

SpecBuffer == InitFeed /\ [][NextBuffer]_vars

(***************************************************************************)
(* The polls of a countdown panel.                                         *)
(***************************************************************************)

\* err instanceof Error ? err.message : 'Unknown error occurred'
FetchErrorText(thrown) ==
  IF thrown.isError THEN thrown.message ELSE "Unknown error occurred"

(***************************************************************************)
(* The poll effect's cleanup and body on the host's timers: clearInterval  *)
(* on the interval of the previous run, setInterval(fetch, 5000) for the   *)
(* client of this run.                                                     *)
(***************************************************************************)
PollEffect(running, client, gen) ==
  Append(SubSeq(running, 1, Len(running) - 1), [client |-> client, gen |-> gen])

\* Poll p settles: its promise resolves or rejects.
Settles(p) ==
  /\ p \in inflight
  /\ inflight' = inflight \ {p}

\* Poll p resolves and its sample is handed to setStatus / setController.
Applies(p) ==
  /\ Settles(p)
  /\ handed' = p

(***************************************************************************)
(* A poll interval fires: fetchStatus / fetchController runs to its await, *)
(* with the client its closure captured; setLoading(true) and              *)
(* setError(null) are queued.                                              *)
(***************************************************************************)
Fetch(i) ==
  /\ mounted \in CountdownPanels
  /\ i \in 1..Len(pollTimers)
  /\ Len(polls) < MaxPolls
  /\ queued' = [queued EXCEPT !.loading = TRUE, !.error = "null"]
  /\ polls' = Append(polls, pollTimers[i])
  /\ inflight' = inflight \cup {Len(polls) + 1}
  /\ call' = NoCall
  /\ UNCHANGED <<now, selectedChain, mounted, auctionVars, controllerVars, effects,
                 base, ticks, timers, pollTimers, handed, applied, loading,
                 fetchError, isInitialLoad, feedVars>>

(***************************************************************************)
(* A poll rejects: the catch queues the message and finally queues         *)
(* loading false.  No state the resync or ticker effects depend on is      *)
(* written.                                                                *)
(***************************************************************************)
FetchFails(thrown) ==
  /\ mounted \in CountdownPanels
  /\ queued' = [queued EXCEPT !.error = FetchErrorText(thrown), !.loading = FALSE]
  /\ call' = NoCall
  /\ UNCHANGED <<now, selectedChain, mounted, auctionVars, controllerVars, effects,
                 base, ticks, timers, pollTimers, polls, handed, applied, loading,
                 fetchError, isInitialLoad, feedVars>>

(***************************************************************************)
(* The other chain is selected in App: React renders the change at once,   *)
(* after the effects still left to run; client and chainName change, the   *)
(* poll effect is cleaned up and runs again with the new client, which     *)
(* calls fetchStatus / fetchController.  The ticker effects are keyed on   *)
(* `local !== null' alone and do not run.                                  *)
(***************************************************************************)
ClientChanged(chain) ==
  /\ mounted \in CountdownPanels
  /\ effects = {}
  /\ chain /= selectedChain
  /\ switches < MaxSwitches
  /\ Len(polls) < MaxPolls
  /\ selectedChain' = chain
  /\ switches' = switches + 1
  /\ pollTimers' = PollEffect(pollTimers, chain, switches + 1)
  /\ queued' = [queued EXCEPT !.loading = TRUE, !.error = "null"]
  /\ polls' = Append(polls, [client |-> chain, gen |-> switches + 1])
  /\ inflight' = inflight \cup {Len(polls) + 1}
  /\ call' = NoCall
  /\ UNCHANGED <<now, mounted, auctionVars, controllerVars, effects, base, ticks,
                 timers, handed, applied, loading, fetchError, isInitialLoad,
                 queuedFeed, transactions, isStreaming, error, totalCount,
                 unwatchRef, shown, subs, live, stopWaits, resetWaits, emitted,
                 received, last>>

(***************************************************************************)
(* The panel is unmounted, after the effects still left to run: the        *)
(* cleanups of the poll effect and of the ticker effects run.              *)
(***************************************************************************)
Unmount ==
  /\ mounted \in CountdownPanels
  /\ effects = {}
  /\ mounted' = "none"
  /\ pollTimers' = SubSeq(pollTimers, 1, Len(pollTimers) - 1)
  /\ timers' = [c \in Countdowns |->
                  IF Ticking(c) THEN SubSeq(timers[c], 1, Len(timers[c]) - 1)
                  ELSE timers[c]]
  /\ countdownIntervalRef' = FALSE
  /\ roundStartIntervalRef' = FALSE
  /\ controllerIntervalRef' = FALSE
  /\ call' = NoCall
  /\ UNCHANGED <<now, selectedChain, status, localCountdown, localRoundStartCountdown,
                 lastSyncTimeRef, controller, localTimeRemaining,
                 controllerLastSyncTimeRef, queued, effects, base, ticks, polls,
                 inflight, handed, applied, loading, fetchError, isInitialLoad,
                 feedVars>>

\* A poll settles after the unmount: its state updates are dropped.
LateResponse ==
  /\ mounted = "none"
  /\ call' = NoCall
  /\ UNCHANGED <<now, selectedChain, mounted, auctionVars, controllerVars, queued,
                 effects, base, ticks, timers, pollTimers, polls, handed, applied,
                 loading, fetchError, isInitialLoad, feedVars>>

(***************************************************************************)
(* A countdown panel: the clock, the polls with their responses in any     *)
(* order, the interval callbacks, React's renders and effects, the target  *)
(* switch and the unmount.                                                 *)
(***************************************************************************)
InitCountdown == Init /\ mounted \in CountdownPanels

NextCountdown ==
  \/ Advance
  \/ \E i \in 1..Len(pollTimers) : Fetch(i)
  \/ \E p \in inflight, s \in AuctionSamples : Applies(p) /\ OnStatus(s)
  \/ \E p \in inflight, s \in ControllerSamples : Applies(p) /\ OnController(s)
  \/ \E p \in inflight, thrown \in Thrown : Settles(p) /\ FetchFails(thrown)
  \/ CountdownTick
  \/ RoundStartTick
  \/ ControllerTick
  \/ Commit
  \/ Effects
  \/ \E chain \in Chains : ClientChanged(chain)
  \/ Unmount
  \/ \E p \in inflight : Settles(p) /\ LateResponse

SpecCountdown == InitCountdown /\ [][NextCountdown]_vars

(***************************************************************************)
(* The countdown panel with the host's timers firing and React doing its   *)
(* work: an interval that has not been cleared calls its callback again    *)
(* and again, a queued update is rendered, the effects of a commit run.    *)
(* Nothing obliges a further sample to arrive, or the clock to be read.    *)
(***************************************************************************)
TimersFire ==
  /\ WF_vars(CountdownTick)
  /\ WF_vars(RoundStartTick)
  /\ WF_vars(ControllerTick)

ReactRuns == WF_vars(Commit) /\ WF_vars(Effects)

SpecTicking == InitCountdown /\ [][NextCountdown]_vars /\ TimersFire /\ ReactRuns

(***************************************************************************)
(*                         Countdown Reconciler                            *)
(***************************************************************************)

\* Nothing is left to render and no effect is left to run.
Quiet == ~Dirty /\ effects = {}

\* The resync effect has run on a sample that carries a value for countdown c
\* (the phase shows c; a current controller is reported) and no other
\* callback has run since; what the effect queued is rendered, under that
\* sample.
Carries(c) == call.sample[c] /= Null

Sampled(c) ==
  /\ Carries(c)
  /\ ~Dirty
  /\ call.on = <<status, controller>>

\* The panel renders the status / controller: neither the spinner of the
\* first load nor the ERROR panel of a failed poll is in its place.
ShowsStatus == ~(isInitialLoad /\ loading) /\ ~Truthy(fetchError)

\* Countdown c holds value v, and shows it where the panel renders the status.
Shows(c, v) == Local(c) = v /\ (ShowsStatus => Displayed(c) = v)

\* C1 (as stated): after a sample that arrives at least 3000 ms after the
\* previous sync, 3000 ms itself included, the countdown shows the sample.
C1_ResyncAtWindow ==
  \A c \in Countdowns :
    (Sampled(c) /\ call.timeSinceLastSync >= ResyncWindowMs)
      => Shows(c, call.sample[c])

\* C1 (amended): after a sample that arrives more than 3000 ms after the
\* previous sync, the countdown shows the sample's value, whatever it showed.
C1_ResyncWhenStale ==
  \A c \in Countdowns :
    (Sampled(c) /\ call.timeSinceLastSync > ResyncWindowMs)
      => Shows(c, call.sample[c])

\* A running countdown within tolerance of the sample was replaced because
\* more than 3000 ms had passed.
C1_Witness ==
  \E c \in Countdowns :
    /\ Sampled(c)
    /\ call.timeSinceLastSync > ResyncWindowMs
    /\ call.prev[c] > 0
    /\ call.pending[c] = call.prev[c]
    /\ call.prev[c] /= call.sample[c]
    /\ Abs(call.prev[c] - call.sample[c]) <= ResyncTolerance
    /\ ShowsStatus
    /\ Displayed(c) = call.sample[c]

\* C2: a sample that arrives less than 3000 ms after the previous sync and
\* differs by at most 2 from a displayed value (0 included) leaves the
\* displayed value unchanged: the countdown shows what it would show
\* without the sample.
C2_JitterSuppressed ==
  \A c \in Countdowns :
    (/\ Sampled(c)
     /\ call.timeSinceLastSync < ResyncWindowMs
     /\ call.prev[c] /= Null
     /\ call.pending[c] = call.prev[c]
     /\ Abs(call.prev[c] - call.sample[c]) <= ResyncTolerance)
      => Shows(c, call.prev[c])

\* C3: whatever time has passed, a sample replaces the displayed value when
\* none is displayed or when it differs from the sample by more than 2.
C3_ResyncWhenAbsentOrDrifted ==
  \A c \in Countdowns :
    (/\ Sampled(c)
     /\ \/ call.prev[c] = Null
        \/ Abs(call.prev[c] - call.sample[c]) > ResyncTolerance)
      => Shows(c, call.sample[c])

\* Inside the window, a running countdown more than 2 away from the sample
\* was replaced by it.
C3_Witness ==
  \E c \in Countdowns :
    /\ Sampled(c)
    /\ call.timeSinceLastSync < ResyncWindowMs
    /\ call.prev[c] > 0
    /\ Abs(call.prev[c] - call.sample[c]) > ResyncTolerance
    /\ ShowsStatus
    /\ Displayed(c) = call.sample[c]

\* C4: with V the value a sample left and N the ticks run since, once
\* everything is rendered the countdown shows V - N while N < V and is
\* absent once N >= V (0 is never displayed by a tick).
C4_AbsentAfterVTicks ==
  \A c \in Countdowns :
    (Quiet /\ ShowsStatus /\ base[c] /= Null /\ ticks[c] > 0)
      => Displayed(c) = IF ticks[c] >= base[c] THEN Null ELSE base[c] - ticks[c]

(***************************************************************************)
(*                           Live Feed Buffer                              *)
(***************************************************************************)

\* C5: the buffer the next render shows holds min(20, events received since
\* the last clearing) items, the newest first in order of receipt, whatever
\* their block numbers; the buffer on screen holds at most 20, consecutive
\* in order of receipt, the newest first.
C5_BufferHoldsNewest ==
  /\ Len(queuedFeed.transactions) = Min(Capacity, received)
  /\ \A i \in 1..Len(queuedFeed.transactions) :
       queuedFeed.transactions[i].hash = emitted - (i - 1)
  /\ Len(transactions) <= Capacity
  /\ \A i \in 1..(Len(transactions) - 1) :
       transactions[i].hash = transactions[i + 1].hash + 1

\* E1..E25 were delivered and rendered: the buffer holds E25..E6, and is not
\* in chain order.
C5_Witness ==
  /\ received = 25
  /\ ~FeedDirty
  /\ Len(transactions) = Capacity
  /\ transactions[1].hash = 25
  /\ transactions[Capacity].hash = 6
  /\ transactions[1].blockNumber > transactions[2].blockNumber
  /\ transactions[2].blockNumber < transactions[3].blockNumber

\* C6: the total-received counter equals the number of onTransaction calls
\* since the last clearing, beyond the capacity of the buffer too; the counter
\* on screen is the one of the buffer on screen.
C6_TotalCountsEvery ==
  /\ queuedFeed.totalCount = received
  /\ Len(transactions) = Min(Capacity, totalCount)

\* More events were counted, and rendered, than the buffer holds.
C6_Witness ==
  /\ totalCount > Capacity
  /\ totalCount = received
  /\ Len(transactions) = Capacity
  /\ last = [op |-> "render", arg |-> "onTransaction"]

\* C7: no two subscriptions opened by the feed are open at once.
C7_OneSubscription ==
  Cardinality(live) <= 1

\* C8: once no reset is awaiting a release and every update is rendered, the
\* buffer holds no event of a subscription opened before the last target
\* switch.
C8_NoEventOfOldSubscription ==
  (resetWaits = {} /\ ~FeedDirty)
    => \A i \in 1..Len(transactions) : subs[transactions[i].from].gen = switches

\* C9: when streaming is inactive, every update is rendered and neither stop
\* nor reset awaits a release, no subscription is open.
C9_ReleasedWhenIdle ==
  (mounted = "StreamTimeboostedTxs" /\ ~FeedDirty /\ ~isStreaming
     /\ stopWaits = {} /\ resetWaits = {}) => live = {}

\* The step is one of the handler, continuation or render named op: every
\* step of the feed but the advance of the clock records what ran.
Ran(op) == now' = now /\ last'.op = op

\* C10: a step of onError records the error, stops streaming, and leaves the
\* buffer and the total-received counter as they were; the render of these
\* updates shows the error and the stopped stream and keeps the buffer and the
\* counter that were queued.
C10_ErrorKeepsFeed ==
  [][/\ Ran("onError")
          => /\ queuedFeed'.error /= "null"
             /\ last'.arg /= "" => queuedFeed'.error = last'.arg
             /\ ~queuedFeed'.isStreaming
             /\ queuedFeed'.transactions = queuedFeed.transactions
             /\ queuedFeed'.totalCount = queuedFeed.totalCount
     /\ (Ran("render") /\ last'.arg = "onError")
          => /\ error' = queuedFeed.error
             /\ error' /= "null"
             /\ ~isStreaming'
             /\ transactions' = queuedFeed.transactions
             /\ totalCount' = queuedFeed.totalCount]_vars

\* onError has stopped a stream that had delivered events, and the error is
\* rendered; the events are kept.
C10_Witness ==
  /\ last = [op |-> "render", arg |-> "onError"]
  /\ error = "rpc down"
  /\ ~isStreaming
  /\ Len(transactions) > 0
  /\ totalCount = Len(transactions)

C12_OnlyNewSubscription ==
  ~FeedDirty => \A i \in 1..Len(transactions) : transactions[i].from = Len(subs)

\* C13: at every moment a row on screen is shown as new exactly when its
\* event was received less than 3000 ms ago, also while nothing but time
\* changes (with an error the ERROR panel hides the rows).
C13_FreshWhileRecent ==
  (mounted = "StreamTimeboostedTxs" /\ ~Truthy(error)) =>
    /\ Len(shown) = Len(transactions)
    /\ \A i \in 1..Len(shown) : shown[i] = (now - transactions[i].timestamp < FreshMs)

(***************************************************************************)
(*                     Polls, timers and countdowns                        *)
(***************************************************************************)

\* C14: the render of a failed poll's error, with nothing else to render,
\* leaves the last sample, every displayed countdown, every running
\* one-second interval and the poll interval as they were: the countdown goes
\* on being displayed and ticking, and polls go on.
C14_FailedPollKeepsCountdown ==
  [][(/\ Truthy(fetchError')
      /\ ~Truthy(fetchError)
      /\ [queued EXCEPT !.error = fetchError, !.loading = loading,
                        !.replaced = NoneReplaced] = Hooks)
       => /\ status' = status
          /\ controller' = controller
          /\ \A c \in Countdowns : Displayed(c)' = Displayed(c)
          /\ timers' = timers
          /\ pollTimers' = pollTimers
          /\ pollTimers /= <<>>]_vars

\* C15: the step that unmounts the panel leaves no poll interval and no
\* one-second interval; the step that changes the target leaves none that was
\* created for the previous target; and afterwards no one-second interval
\* created before the last target switch fires and no poll is issued for a
\* previous target or by an unmounted panel.
C15_NoStaleTimerFires ==
  [][/\ (mounted' = "none" /\ mounted /= "none")
          => (pollTimers' = <<>> /\ \A c \in Countdowns : timers'[c] = <<>>)
     /\ switches' /= switches
          => /\ \A i \in 1..Len(pollTimers') : pollTimers'[i].gen = switches'
             /\ \A c \in Countdowns :
                  \A i \in 1..Len(timers'[c]) : timers'[c][i] = switches'
     /\ \A c \in Countdowns :
          ticks'[c] = ticks[c] + 1
            => (mounted /= "none"
                  /\ \A i \in 1..Len(timers[c]) : timers[c][i] = switches)
     /\ Len(polls') > Len(polls)
          => (mounted /= "none" /\ polls'[Len(polls')].gen = switches')]_vars

\* C16: in every reachable state each countdown has at most one one-second
\* interval that has not been cleared, and it is the one its ref holds.
C16_OneTickerPerCountdown ==
  \A c \in Countdowns :
    /\ Len(timers[c]) <= 1
    /\ Ticking(c) = (timers[c] /= <<>>)

\* After a target switch and at least two samples a countdown is running on
\* a single interval, created after the switch, and has ticked.
C16_Witness ==
  \E c \in Countdowns :
    /\ timers[c] = <<1>>
    /\ Ticking(c)
    /\ Cardinality(inflight) + 2 <= Len(polls)
    /\ ticks[c] > 0
    /\ Local(c) > 0

\* C17: once everything is rendered and every effect has run, a countdown's
\* one-second interval runs exactly while a value above 0 is displayed; in
\* particular a displayed value above 0 always has one.
C17_TickerIffPositive ==
  \A c \in Countdowns :
    (mounted /= "none" /\ Quiet /\ ShowsStatus)
      => (timers[c] /= <<>>) = (Displayed(c) /= Null /\ Displayed(c) > 0)

\* C18: once a status sample is processed (its resync effect has run and
\* what it queued is rendered) the auction-close countdown is present only
\* in phase bidding, the round-start countdown only in phase closing or
\* resolving, and in any other phase, and before the first sample, both are
\* absent; in every state the two are never both present, nor both displayed.
C18_CountdownFollowsPhase ==
  /\ (~Dirty /\ "resync" \notin effects)
       => /\ localCountdown /= Null => status.currentPhase = "bidding"
          /\ localRoundStartCountdown /= Null
               => status.currentPhase \in {"closing", "resolving"}
          /\ status.currentPhase \notin {"bidding", "closing", "resolving"}
               => (localCountdown = Null /\ localRoundStartCountdown = Null)
  /\ ~(localCountdown /= Null /\ localRoundStartCountdown /= Null)
  /\ ~(queued.localCountdown /= Null /\ queued.localRoundStartCountdown /= Null)
  /\ ~(Displayed("auctionCloses") /= Null /\ Displayed("roundStarts") /= Null)

\* The phase changed: a round-start countdown was present and running when
\* the resync effect ran on a sample in phase bidding; the render of what the
\* effect queued shows the auction-close countdown of that sample and no
\* round-start countdown (the interval of the old one is still to be cleared
\* by the ticker effect of this render).
C18_Witness ==
  /\ mounted = "AuctionStatus"
  /\ ~Dirty
  /\ "resync" \notin effects
  /\ call.on[1] = status
  /\ status.currentPhase = "bidding"
  /\ call.prev["roundStarts"] > 0
  /\ call.prev["auctionCloses"] = Null
  /\ call.sample["auctionCloses"] > 0
  /\ localCountdown = call.sample["auctionCloses"]
  /\ localRoundStartCountdown = Null
  /\ ShowsStatus
  /\ Displayed("auctionCloses") = call.sample["auctionCloses"]
  /\ Displayed("roundStarts") = Null
  /\ timers["roundStarts"] /= <<>>
  /\ "roundStarts" \in effects

\* C19: a displayed countdown is absent or a non-negative integer; from one
\* state to the next a displayed value becomes larger only in the render of
\* a value the resync effect set; a tick only lowers the countdown by 1 or
\* clears it.
C19_OnlySamplesIncrease ==
  [][\A c \in Countdowns :
       /\ Displayed(c)' = Null \/ Displayed(c)' \in Nat
       /\ (Displayed(c) /= Null /\ Displayed(c)' /= Null /\ Displayed(c)' > Displayed(c))
            => queued.replaced[c]
       /\ ticks'[c] = ticks[c] + 1
            => (Queued(c)' = Queued(c) - 1 \/ Queued(c)' = Null)]_vars

\* The sync time of the mounted panel.
LastSyncTime ==
  IF mounted = "ExpressLaneController" THEN controllerLastSyncTimeRef
  ELSE lastSyncTimeRef

\* C20 (as stated): after every run of the resync effect on a sample the sync
\* time is the time of that run, whatever the sample reports.
C20_SyncTimeOnEveryCall ==
  call /= NoCall => LastSyncTime = now

\* C20 (amended): after a run of the resync effect the sync time is the time
\* of that run, replaced value or not, for every status sample of
\* AuctionStatus and for every ExpressLaneController sample that reports a
\* current controller; a sample without a current controller leaves the sync
\* time as it was.
C20_SyncTimeOnCountdownSample ==
  call /= NoCall
    => LastSyncTime =
         IF mounted = "ExpressLaneController" /\ ~Carries("timeRemaining")
         THEN now - call.timeSinceLastSync
         ELSE now

\* A sample that came after the clock had advanced left the displayed value
\* as it was, different from the sample, and the sync time is now.
C20_Witness ==
  \E c \in Countdowns :
    /\ Sampled(c)
    /\ call.timeSinceLastSync > 0
    /\ call.prev[c] /= call.sample[c]
    /\ Displayed(c) = call.prev[c]
    /\ LastSyncTime = now

(***************************************************************************)
(*                    Races of awaits and responses                        *)
(***************************************************************************)

\* C21: a step in which stopStreaming or resetComponent resumes after its
\* await leaves the stored handle as it is when the handle names a
\* subscription that is still open after the awaited release, that is, one
\* opened by a startStreaming that ran during the await.
C21_ResumeKeepsNewHandle ==
  [][(Ran("stopStreaming resumed") \/ Ran("resetComponent resumed"))
       => (unwatchRef \in live' => unwatchRef' = unwatchRef)]_vars

\* C22: a step in which a poll issued to a client other than the selected
\* one settles queues no update of the status (or controller), the error or a
\* countdown: the resync effect never runs on a sample of a previous client.
C22_StaleResponseDropped ==
  [][\A p \in inflight \ inflight' :
       polls[p].client /= selectedChain => queued' = queued]_vars

\* C23: the polls whose samples are rendered and fed to the resync effect
\* come in the order they were issued: a sample is never that of a poll issued
\* before the poll whose sample was rendered last.
C23_AppliedInIssueOrder ==
  [][applied' /= applied => applied' > applied]_vars

\* No sample is on its way to the countdowns: none is queued, the resync
\* effect is not left to run, and what it queued is rendered.
NoSample ==
  /\ ~queued.sample
  /\ "resync" \notin effects
  /\ queued.replaced = NoneReplaced

\* C24: with the timers firing and React rendering, a countdown that displays
\* a value above 0 while no sample is on its way leads to a state in which it
\* is absent and has no interval left, so that no tick follows, unless a
\* further sample arrives first.
C24_CountdownRunsOut ==
  \A c \in Countdowns :
    (Displayed(c) > 0 /\ NoSample)
      ~> ((Displayed(c) = Null /\ timers[c] = <<>>) \/ queued.sample)
====
